---- MODULE Spec2Model ----
(***************************************************************************)
(* Model of awsfabrictasks/utils.py: privileged upload helpers built on    *)
(* Fabric's sudo()/put() and the rsync path normalisation helpers.         *)
(*                                                                         *)
(* Python strings are sequences of one-character strings, so that          *)
(* endswith, rstrip, join and split are computed character by character.   *)
(* Python values of other types are pairs <<type, payload>>.               *)
(* Every behaviour is one call of one library function by a caller: the    *)
(* functions keep no state between calls.                                  *)
(***************************************************************************)
EXTENDS Integers, Sequences, FiniteSets

VARIABLES op, args, ret, trace, error, tmpfiles

vars == <<op, args, ret, trace, error, tmpfiles>>

(***************************************************************************)
(* Bounds                                                                  *)
(***************************************************************************)
MaxLen == 4        \* longest generated path string
MaxInt == 2        \* largest integer handed to parse_bool
MaxDirs == 2       \* directories below the root of the local tree
MaxFiles == 2      \* files in the whole local tree

(***************************************************************************)
(* Python strings and values                                               *)
(***************************************************************************)
Chars == {"/", "a", "."}

RECURSIVE StringsUpTo(_)
StringsUpTo(n) ==
    IF n = 0 THEN {<<>>}
    ELSE LET shorter == StringsUpTo(n - 1)
         IN  shorter \cup {Append(s, c) : s \in {x \in shorter : Len(x) = n - 1}, c \in Chars}

PyNone == <<"NoneType", 0>>
PyTrue == <<"bool", 1>>
PyFalse == <<"bool", 0>>
PyInt(i) == <<"int", i>>
PyFloat(i) == <<"float", i>>
PyStr(s) == <<"str", s>>

IsNumber(v) == v[1] \in {"bool", "int", "float"}

\* Python's == : strings compare by content, bool/int/float compare by
\* numeric value whatever their type (True == 1 == 1.0), None only
\* equals None.
PyEq(a, b) ==
    IF IsNumber(a) /\ IsNumber(b) THEN a[2] = b[2]
    ELSE IF a[1] = "str" /\ b[1] = "str" THEN a[2] = b[2]
    ELSE a[1] = "NoneType" /\ b[1] = "NoneType"

\* Python's truth value, as tested by "if owner:".
Truthy(v) ==
    IF v[1] = "NoneType" THEN FALSE
    ELSE IF v[1] = "str" THEN Len(v[2]) > 0
    ELSE v[2] # 0

endswith(s, c) == Len(s) > 0 /\ s[Len(s)] = c

startswith(s, c) == Len(s) > 0 /\ s[1] = c

RECURSIVE rstrip(_, _)
rstrip(s, c) ==
    IF endswith(s, c) THEN rstrip(SubSeq(s, 1, Len(s) - 1), c) ELSE s

(***************************************************************************)
(* parse_bool, force_slashend, force_noslashend, rsyncformat_path          *)
(***************************************************************************)
parse_bool(data) ==
    \E x \in {PyStr(<<"t", "r", "u", "e">>), PyStr(<<"T", "r", "u", "e">>), PyTrue} :
        PyEq(x, data)

\* faulty variant: appends a '/' even when one is there
force_slashend_always(path) == path \o <<"/">>

force_slashend(path) ==
    IF ~endswith(path, "/") THEN path \o <<"/">> ELSE path

\* faulty variant: removes one trailing '/' only
force_noslashend_one(path) ==
    IF endswith(path, "/") THEN SubSeq(path, 1, Len(path) - 1) ELSE path

force_noslashend(path) ==
    IF endswith(path, "/") THEN rstrip(path, "/") ELSE path

\* faulty variant: the two branches exchanged
rsyncformat_path_swapped(source_path, sync_content) ==
    IF sync_content THEN force_noslashend(source_path)
    ELSE force_slashend(source_path)

rsyncformat_path(source_path, sync_content) ==
    IF sync_content THEN force_slashend(source_path)
    ELSE force_noslashend(source_path)

(***************************************************************************)
(* The world a call runs in: the commands issued to the remote host so     *)
(* far, the exception being raised (if any), which remote call the host    *)
(* makes fail (failAt, 0 for none), the local temporary directory (file    *)
(* name -> content), the name the platform hands to the next temporary     *)
(* file, and the local directory tree below local_dir.                     *)
(***************************************************************************)
Raised(st) == st.error.raisedBy # "none"

\* One call of a Fabric primitive: the call is issued, and raises when the
\* host makes it fail (Fabric aborts on a failed sudo() or put()).
issue(prim, words, st) ==
    LET n == Len(st.trace) + 1
    IN  [st EXCEPT !.trace = Append(@, [prim |-> prim, words |-> words]),
                   !.error = IF n = st.failAt
                             THEN [raisedBy |-> prim, call |-> n] ELSE @]

\* sudo(command): the command is given by its words, in order.
sudo(words, st) == issue("sudo", words, st)

\* put(local_path, remote_path, use_sudo=True)
put(local_path, remote_path, st) == issue("put", <<"put", local_path, remote_path>>, st)

\* '{owner}'.format(...): a string is inserted as it is, None as 'None'
Format(v) == IF v[1] = "NoneType" THEN <<"N", "o", "n", "e">> ELSE v[2]

sudo_chown(remote_path, owner, st) ==
    sudo(<<"chown", Format(owner), remote_path>>, st)

sudo_chmod(remote_path, mode, st) ==
    sudo(<<"chmod", Format(mode), remote_path>>, st)

\* faulty variant: chmod before chown
sudo_chattr_modeFirst(remote_path, owner, mode, st) ==
    LET s1 == IF Truthy(mode) THEN sudo_chmod(remote_path, mode, st) ELSE st
    IN  IF Raised(s1) THEN s1
        ELSE IF Truthy(owner) THEN sudo_chown(remote_path, owner, s1) ELSE s1

sudo_chattr(remote_path, owner, mode, st) ==
    LET s1 == IF Truthy(owner) THEN sudo_chown(remote_path, owner, st) ELSE st
    IN  IF Raised(s1) THEN s1
        ELSE IF Truthy(mode) THEN sudo_chmod(remote_path, mode, s1) ELSE s1

\* faulty variant: attributes applied before the copy
sudo_upload_file_chattrFirst(local_path, remote_path, chattr_kw, st) ==
    LET s1 == sudo_chattr(remote_path, chattr_kw.owner, chattr_kw.mode, st)
    IN  IF Raised(s1) THEN s1 ELSE put(local_path, remote_path, s1)

sudo_upload_file(local_path, remote_path, chattr_kw, st) ==
    LET s1 == put(local_path, remote_path, st)
    IN  IF Raised(s1) THEN s1
        ELSE sudo_chattr(remote_path, chattr_kw.owner, chattr_kw.mode, s1)

(***************************************************************************)
(* Temporary files                                                         *)
(***************************************************************************)
TmpPath(name) == <<"/", "t", "m", "p", "/", name>>

\* NamedTemporaryFile(delete=False): a new, empty file under a fresh name
NamedTemporaryFile(st) ==
    [st EXCEPT !.tmp = [n \in DOMAIN st.tmp \cup {st.fresh} |->
                            IF n = st.fresh THEN <<>> ELSE st.tmp[n]]]

\* tmpfile.write(string); tmpfile.close()
write(name, string, st) == [st EXCEPT !.tmp[name] = @ \o string]

\* os.remove(path): raises OSError when the file does not exist; an
\* exception raised in a finally block replaces the one being propagated.
remove(name, st) ==
    IF name \in DOMAIN st.tmp
    THEN [st EXCEPT !.tmp = [n \in DOMAIN st.tmp \ {name} |-> st.tmp[n]]]
    ELSE [st EXCEPT !.error = [raisedBy |-> "remove", call |-> Len(st.trace)]]

\* faulty variant: the temporary file is removed only after a successful upload
sudo_upload_string_to_file_noFinally(string_to_upload, remote_path, chattr_kw, st) ==
    LET s0 == NamedTemporaryFile(st)
        s1 == write(st.fresh, string_to_upload, s0)
        s2 == sudo_upload_file(TmpPath(st.fresh), remote_path, chattr_kw, s1)
    IN  IF Raised(s2) THEN s2 ELSE remove(st.fresh, s2)

sudo_upload_string_to_file(string_to_upload, remote_path, chattr_kw, st) ==
    LET s0 == NamedTemporaryFile(st)
        s1 == write(st.fresh, string_to_upload, s0)
        s2 == sudo_upload_file(TmpPath(st.fresh), remote_path, chattr_kw, s1)
    IN  remove(st.fresh, s2)

sudo_mkdir_p(remote_path, chattr_kw, st) ==
    LET s1 == sudo(<<"mkdir", <<"-", "p">>, remote_path>>, st)
    IN  IF Raised(s1) THEN s1
        ELSE sudo_chattr(remote_path, chattr_kw.owner, chattr_kw.mode, s1)

(***************************************************************************)
(* os.path (posixpath) and os.walk, as sudo_upload_dir uses them           *)
(***************************************************************************)
\* join(a, b): an absolute b replaces a; otherwise b is appended, after a
\* '/' unless a is empty or already ends with one.
join(a, b) ==
    IF startswith(b, "/") THEN b
    ELSE IF a = <<>> \/ endswith(a, "/") THEN a \o b
    ELSE a \o <<"/">> \o b

\* [x for x in s.split('/') if x]
RECURSIVE SplitFrom(_, _, _)
SplitFrom(s, i, cur) ==
    IF i > Len(s) THEN (IF cur = <<>> THEN <<>> ELSE <<cur>>)
    ELSE IF s[i] = "/"
         THEN (IF cur = <<>> THEN <<>> ELSE <<cur>>) \o SplitFrom(s, i + 1, <<>>)
         ELSE SplitFrom(s, i + 1, Append(cur, s[i]))

Components(s) == SplitFrom(s, 1, <<>>)

\* normpath of an absolute path, on its components: '.' is dropped and
\* '..' removes the component before it (nothing at the root).
RECURSIVE NormComps(_, _, _)
NormComps(comps, i, acc) ==
    IF i > Len(comps) THEN acc
    ELSE IF comps[i] = <<".">> THEN NormComps(comps, i + 1, acc)
    ELSE IF comps[i] = <<".", ".">>
         THEN NormComps(comps, i + 1,
                        IF acc = <<>> THEN acc ELSE SubSeq(acc, 1, Len(acc) - 1))
         ELSE NormComps(comps, i + 1, Append(acc, comps[i]))

\* the working directory of the process
getcwd == <<"/", "w">>

\* abspath(path), as the list of its components
abspath(path) == NormComps(Components(join(getcwd, path)), 1, <<>>)

RECURSIVE CommonPrefixLen(_, _)
CommonPrefixLen(a, b) ==
    IF a = <<>> \/ b = <<>> \/ Head(a) # Head(b) THEN 0
    ELSE 1 + CommonPrefixLen(Tail(a), Tail(b))

\* join(*parts)
RECURSIVE JoinAll(_)
JoinAll(parts) ==
    IF Len(parts) = 1 THEN parts[1]
    ELSE join(JoinAll(SubSeq(parts, 1, Len(parts) - 1)), parts[Len(parts)])

relpath(path, start) ==
    LET start_list == abspath(start)
        path_list == abspath(path)
        i == CommonPrefixLen(start_list, path_list)
        rel_list == [k \in 1..(Len(start_list) - i) |-> <<".", ".">>]
                        \o SubSeq(path_list, i + 1, Len(path_list))
    IN  IF rel_list = <<>> THEN <<".">> ELSE JoinAll(rel_list)

\* os.walk(top), top-down: the directory itself, then each subdirectory in
\* the order of dirnames.  tree maps the key of a directory (the names
\* leading to it from the root) to its subdirectory and file names.
RECURSIVE walk(_, _, _)
RECURSIVE walkAll(_, _, _, _)
walkAll(tree, key, top, i) ==
    IF i > Len(tree[key].dirnames) THEN <<>>
    ELSE LET name == tree[key].dirnames[i]
         IN  walk(tree, Append(key, name), join(top, <<name>>))
                \o walkAll(tree, key, top, i + 1)

walk(tree, key, top) ==
    << [dirpath |-> top, dirnames |-> tree[key].dirnames,
        filenames |-> tree[key].filenames] >>
        \o walkAll(tree, key, top, 1)

(***************************************************************************)
(* sudo_upload_dir                                                         *)
(***************************************************************************)
\* faulty variant: a failed upload does not end the loop
RECURSIVE upload_files_keepGoing(_, _, _, _, _, _)
upload_files_keepGoing(filenames, i, local_dirpath, remote_dirpath, chattr_kw, st) ==
    IF i > Len(filenames) THEN st
    ELSE LET local_filepath == join(local_dirpath, <<filenames[i]>>)
             remote_filepath == join(remote_dirpath, <<filenames[i]>>)
         IN  upload_files_keepGoing(filenames, i + 1, local_dirpath, remote_dirpath, chattr_kw,
                          sudo_upload_file(local_filepath, remote_filepath, chattr_kw, st))

\* for filename in filenames: ... sudo_upload_file(...)
RECURSIVE upload_files(_, _, _, _, _, _)
upload_files(filenames, i, local_dirpath, remote_dirpath, chattr_kw, st) ==
    IF i > Len(filenames) \/ Raised(st) THEN st
    ELSE LET local_filepath == join(local_dirpath, <<filenames[i]>>)
             remote_filepath == join(remote_dirpath, <<filenames[i]>>)
         IN  upload_files(filenames, i + 1, local_dirpath, remote_dirpath, chattr_kw,
                          sudo_upload_file(local_filepath, remote_filepath, chattr_kw, st))

\* faulty variant: the files are uploaded before their directory is made
RECURSIVE upload_dirs_filesFirst(_, _, _, _, _, _)
upload_dirs_filesFirst(walked, i, local_dir, remote_dir, chattr_kw, st) ==
    IF i > Len(walked) \/ Raised(st) THEN st
    ELSE LET local_dirpath == walked[i].dirpath
             rel == relpath(local_dirpath, local_dir)
             remote_dirpath == IF rel # <<".">> THEN join(remote_dir, rel) ELSE remote_dir
             s1 == upload_files(walked[i].filenames, 1, local_dirpath,
                                remote_dirpath, chattr_kw, st)
             s2 == IF Raised(s1) THEN s1
                   ELSE sudo_mkdir_p(remote_dirpath, chattr_kw, s1)
         IN  upload_dirs_filesFirst(walked, i + 1, local_dir, remote_dir, chattr_kw, s2)

\* faulty variant: the relative path is joined even at the root
RECURSIVE upload_dirs_alwaysJoin(_, _, _, _, _, _)
upload_dirs_alwaysJoin(walked, i, local_dir, remote_dir, chattr_kw, st) ==
    IF i > Len(walked) \/ Raised(st) THEN st
    ELSE LET local_dirpath == walked[i].dirpath
             rel == relpath(local_dirpath, local_dir)
             remote_dirpath == join(remote_dir, rel)
             s1 == sudo_mkdir_p(remote_dirpath, chattr_kw, st)
             s2 == IF Raised(s1) THEN s1
                   ELSE upload_files(walked[i].filenames, 1, local_dirpath,
                                     remote_dirpath, chattr_kw, s1)
         IN  upload_dirs_alwaysJoin(walked, i + 1, local_dir, remote_dir, chattr_kw, s2)

\* for local_dirpath, dirnames, filenames in walk(local_dir): ...
RECURSIVE upload_dirs(_, _, _, _, _, _)
upload_dirs(walked, i, local_dir, remote_dir, chattr_kw, st) ==
    IF i > Len(walked) \/ Raised(st) THEN st
    ELSE LET local_dirpath == walked[i].dirpath
             rel == relpath(local_dirpath, local_dir)
             remote_dirpath == IF rel # <<".">> THEN join(remote_dir, rel) ELSE remote_dir
             s1 == sudo_mkdir_p(remote_dirpath, chattr_kw, st)
             s2 == IF Raised(s1) THEN s1
                   ELSE upload_files(walked[i].filenames, 1, local_dirpath,
                                     remote_dirpath, chattr_kw, s1)
         IN  upload_dirs(walked, i + 1, local_dir, remote_dir, chattr_kw, s2)

sudo_upload_dir(local_dir, remote_dir, chattr_kw, st) ==
    upload_dirs(walk(st.tree, <<>>, local_dir), 1, local_dir, remote_dir, chattr_kw, st)

(***************************************************************************)
(* Inputs                                                                  *)
(***************************************************************************)
InitD == <<"/", "e", "t", "c", "/", "i", "n", "i", "t", ".", "d">>

ExamplePaths == {InitD, InitD \o <<"/">>, InitD \o <<"/", "/">>}

Paths == StringsUpTo(MaxLen) \cup ExamplePaths

SampleStrings ==
    { <<"t", "r", "u", "e">>, <<"T", "r", "u", "e">>, <<"T", "R", "U", "E">>,
      <<"f", "a", "l", "s", "e">>, <<"1">>, <<"0">>, <<"y", "e", "s">>, <<>> }

PyValues ==
    {PyNone, PyTrue, PyFalse}
        \cup {PyInt(i) : i \in 0..MaxInt}
        \cup {PyFloat(i) : i \in 0..MaxInt}
        \cup {PyStr(s) : s \in SampleStrings}

NoError == [raisedBy |-> "none", call |-> 0]

RemotePaths == {<<"/", "r">>, <<"r", "/", "f">>}

LocalPaths == {<<"l">>, <<"/", "l", "/", "f">>}

Owners == {PyNone, PyStr(<<>>), PyStr(<<"u", ":", "g">>)}

Modes == {PyNone, PyStr(<<>>), PyStr(<<"7", "5", "5">>)}

ChattrKw == [owner : Owners, mode : Modes]

\* keyword arguments handed to sudo_upload_dir
DirChattrKw == [owner : {PyNone, PyStr(<<"u", ":", "g">>)}, mode : {PyNone, PyStr(<<"7", "5", "5">>)}]

UploadStrings == {<<>>, <<"h", "i">>}

TmpNames == {"x", "y", "z"}

\* The local tree: directory and file names (one character each), and every tree of at most
\* MaxDirs directories below the root holding at most MaxFiles files.
DirNames == {"s", "t"}

FileNames == {"a", "b"}

Perms(S) ==
    {q \in [1..Cardinality(S) -> S] : \A i, j \in 1..Cardinality(S) : i # j => q[i] # q[j]}

RECURSIVE KeysUpTo(_)
KeysUpTo(n) ==
    IF n = 0 THEN {<<>>}
    ELSE LET shorter == KeysUpTo(n - 1)
         IN  shorter \cup {Append(k, d) : k \in {x \in shorter : Len(x) = n - 1},
                                          d \in DirNames}

Parent(k) == SubSeq(k, 1, Len(k) - 1)

DirSets ==
    {D \cup {<<>>} : D \in {X \in SUBSET (KeysUpTo(MaxDirs) \ {<<>>}) :
                                /\ Cardinality(X) <= MaxDirs
                                /\ \A k \in X : Len(k) > 1 => Parent(k) \in X}}

Children(D, k) == {k2[Len(k2)] : k2 \in {x \in D : Len(x) = Len(k) + 1 /\ Parent(x) = k}}

DirSeqs == UNION {Perms(S) : S \in SUBSET DirNames}

FileSeqs == UNION {Perms(S) : S \in SUBSET FileNames}

RECURSIVE SumLen(_, _)
SumLen(f, S) ==
    IF S = {} THEN 0
    ELSE LET k == CHOOSE x \in S : TRUE IN Len(f[k]) + SumLen(f, S \ {k})

TreesOver(D) ==
    {[k \in D |-> [dirnames |-> dn[k], filenames |-> fn[k]]] :
        dn \in {o \in [D -> DirSeqs] :
                    \A k \in D : o[k] \in Perms(Children(D, k))},
        fn \in {f \in [D -> FileSeqs] : SumLen(f, D) <= MaxFiles}}

Trees == UNION {TreesOver(D) : D \in DirSets}

EmptyTree == [k \in {<<>>} |-> [dirnames |-> <<>>, filenames |-> <<>>]]

LocalDirs == {<<"l">>, <<"l", "/">>, <<".">>}

RemoteDirs == {<<"r">>, <<"/", "r", "/">>}

\* the world at the start of a call
World(failAt, fresh, tree) ==
    [trace |-> <<>>, error |-> NoError, failAt |-> failAt,
     tmp |-> tmpfiles, fresh |-> fresh, tree |-> tree]

Quiet == World(0, "y", EmptyTree)

(***************************************************************************)
(* State machine                                                           *)
(***************************************************************************)
Init ==
    /\ op = "none"
    /\ args = <<>>
    /\ ret = PyNone
    /\ trace = <<>>
    /\ error = NoError
    /\ tmpfiles = [n \in {"x"} |-> <<"a">>]

\* the call returns or raises: what the caller and the hosts are left with
Finish(name, a, st) ==
    /\ op' = name
    /\ args' = a
    /\ ret' = PyNone
    /\ trace' = st.trace
    /\ error' = st.error
    /\ tmpfiles' = st.tmp

\* sudo_chown called directly: the command is issued whatever the owner is
CallSudoChown ==
    /\ op = "none"
    /\ \E remote_path \in RemotePaths, owner \in Owners :
        \E failAt \in 0..Len(sudo_chown(remote_path, owner, Quiet).trace) :
            Finish("sudo_chown",
                   [remote_path |-> remote_path, owner |-> owner, failAt |-> failAt],
                   sudo_chown(remote_path, owner, World(failAt, "y", EmptyTree)))

\* sudo_chmod called directly: the command is issued whatever the mode is
CallSudoChmod ==
    /\ op = "none"
    /\ \E remote_path \in RemotePaths, mode \in Modes :
        \E failAt \in 0..Len(sudo_chmod(remote_path, mode, Quiet).trace) :
            Finish("sudo_chmod",
                   [remote_path |-> remote_path, mode |-> mode, failAt |-> failAt],
                   sudo_chmod(remote_path, mode, World(failAt, "y", EmptyTree)))

CallSudoChattr ==
    /\ op = "none"
    /\ \E remote_path \in RemotePaths, owner \in Owners, mode \in Modes :
        \E failAt \in 0..Len(sudo_chattr(remote_path, owner, mode, Quiet).trace) :
            Finish("sudo_chattr",
                   [remote_path |-> remote_path, owner |-> owner, mode |-> mode,
                    failAt |-> failAt],
                   sudo_chattr(remote_path, owner, mode, World(failAt, "y", EmptyTree)))

CallSudoUploadFile ==
    /\ op = "none"
    /\ \E local_path \in LocalPaths, remote_path \in RemotePaths, kw \in ChattrKw :
        \E failAt \in 0..Len(sudo_upload_file(local_path, remote_path, kw, Quiet).trace) :
            Finish("sudo_upload_file",
                   [local_path |-> local_path, remote_path |-> remote_path,
                    chattr_kw |-> kw, failAt |-> failAt],
                   sudo_upload_file(local_path, remote_path, kw,
                                    World(failAt, "y", EmptyTree)))

CallSudoUploadStringToFile ==
    /\ op = "none"
    /\ \E string \in UploadStrings, remote_path \in RemotePaths, kw \in ChattrKw,
          fresh \in TmpNames \ DOMAIN tmpfiles :
        \E failAt \in 0..Len(sudo_upload_string_to_file(string, remote_path, kw, Quiet).trace) :
            Finish("sudo_upload_string_to_file",
                   [string_to_upload |-> string, remote_path |-> remote_path,
                    chattr_kw |-> kw, failAt |-> failAt, fresh |-> fresh,
                    before |-> tmpfiles],
                   sudo_upload_string_to_file(string, remote_path, kw,
                                              World(failAt, fresh, EmptyTree)))

CallSudoMkdirP ==
    /\ op = "none"
    /\ \E remote_path \in RemotePaths, kw \in ChattrKw :
        \E failAt \in 0..Len(sudo_mkdir_p(remote_path, kw, Quiet).trace) :
            Finish("sudo_mkdir_p",
                   [remote_path |-> remote_path, chattr_kw |-> kw, failAt |-> failAt],
                   sudo_mkdir_p(remote_path, kw, World(failAt, "y", EmptyTree)))

CallSudoUploadDir ==
    /\ op = "none"
    /\ \E tree \in Trees, local_dir \in LocalDirs, remote_dir \in RemoteDirs, kw \in DirChattrKw :
        \E failAt \in 0..Len(sudo_upload_dir(local_dir, remote_dir, kw,
                                             World(0, "y", tree)).trace) :
            Finish("sudo_upload_dir",
                   [local_dir |-> local_dir, remote_dir |-> remote_dir, chattr_kw |-> kw,
                    tree |-> tree, failAt |-> failAt],
                   sudo_upload_dir(local_dir, remote_dir, kw, World(failAt, "y", tree)))

CallParseBool ==
    /\ op = "none"
    /\ \E data \in PyValues :
        /\ op' = "parse_bool"
        /\ args' = [data |-> data]
        /\ ret' = IF parse_bool(data) THEN PyTrue ELSE PyFalse
    /\ UNCHANGED <<trace, error, tmpfiles>>

CallForceSlashend ==
    /\ op = "none"
    /\ \E path \in Paths :
        /\ op' = "force_slashend"
        /\ args' = [path |-> path]
        /\ ret' = PyStr(force_slashend(path))
    /\ UNCHANGED <<trace, error, tmpfiles>>

CallForceNoslashend ==
    /\ op = "none"
    /\ \E path \in Paths :
        /\ op' = "force_noslashend"
        /\ args' = [path |-> path]
        /\ ret' = PyStr(force_noslashend(path))
    /\ UNCHANGED <<trace, error, tmpfiles>>

CallRsyncformatPath ==
    /\ op = "none"
    /\ \E path \in Paths, sync_content \in BOOLEAN :
        /\ op' = "rsyncformat_path"
        /\ args' = [source_path |-> path, sync_content |-> sync_content]
        /\ ret' = PyStr(rsyncformat_path(path, sync_content))
    /\ UNCHANGED <<trace, error, tmpfiles>>

(***************************************************************************)
(* Properties of the pure helpers                                          *)
(***************************************************************************)
\* s ends with exactly one '/'
EndsWithOneSlash(s) == endswith(s, "/") /\ ~endswith(SubSeq(s, 1, Len(s) - 1), "/")

\* r is p without its trailing '/' characters: r does not end with '/',
\* and p is r followed by '/' characters only
IsStripped(r, p) ==
    /\ ~endswith(r, "/")
    /\ Len(r) <= Len(p)
    /\ SubSeq(p, 1, Len(r)) = r
    /\ \A i \in (Len(r) + 1)..Len(p) : p[i] = "/"

\* C6: parse_bool returns True exactly when its input is the string
\* 'true', the string 'True' or the boolean True, and False for every
\* other input of any type, numbers included.
C6_ParseBoolExact ==
    op = "parse_bool" =>
        (ret = PyTrue <=> args.data \in {PyStr(<<"t", "r", "u", "e">>),
                                         PyStr(<<"T", "r", "u", "e">>), PyTrue})

\* C7 as stated: force_slashend is idempotent and its result always ends
\* with exactly one '/', also for paths that already end in several '/'.
C7_ExactlyOneSlash ==
    op = "force_slashend" =>
        /\ force_slashend(ret[2]) = ret[2]
        /\ EndsWithOneSlash(ret[2])

\* C7 amended: force_slashend is idempotent and its result always ends
\* with '/': a path that already ends with '/' is returned unchanged
\* (however many '/' it ends with), any other path gets exactly one '/'
\* appended, so the result ends with exactly one '/' unless the path
\* itself ended with several.
C7_SlashendIdempotent ==
    op = "force_slashend" =>
        /\ force_slashend(ret[2]) = ret[2]
        /\ endswith(ret[2], "/")
        /\ endswith(args.path, "/") => ret[2] = args.path
        /\ ~endswith(args.path, "/") =>
                ret[2] = args.path \o <<"/">> /\ EndsWithOneSlash(ret[2])
        /\ EndsWithOneSlash(args.path) => EndsWithOneSlash(ret[2])

C7_Witness ==
    /\ op = "force_slashend"
    /\ Len(args.path) >= 3
    /\ args.path[Len(args.path)] = "/"
    /\ args.path[Len(args.path) - 1] = "/"
    /\ args.path[1] = "a"
    /\ ret[2] = args.path

\* C8: force_noslashend returns the path with all its trailing '/'
\* stripped and nothing else changed: the result never ends with '/',
\* and applying the function again changes nothing.
C8_NoslashendStripsAll ==
    op = "force_noslashend" =>
        /\ IsStripped(ret[2], args.path)
        /\ force_noslashend(ret[2]) = ret[2]

C8_Witness ==
    /\ op = "force_noslashend"
    /\ Len(args.path) >= 2
    /\ \A i \in DOMAIN args.path : args.path[i] = "/"
    /\ ret[2] = <<>>

\* C9 as stated: with sync_content the result is the path's slash-free
\* stem followed by exactly one '/'; without it, the path with every
\* trailing '/' removed.
C9_StemPlusOneSlash ==
    op = "rsyncformat_path" =>
        /\ args.sync_content =>
                /\ EndsWithOneSlash(ret[2])
                /\ IsStripped(SubSeq(ret[2], 1, Len(ret[2]) - 1), args.source_path)
        /\ ~args.sync_content => IsStripped(ret[2], args.source_path)

\* C9 amended: with sync_content the result is the path itself when it
\* already ends with '/' (its trailing '/' are kept as they are), and
\* otherwise the path followed by exactly one '/'; without sync_content
\* the result is the path with every trailing '/' removed.
C9_RsyncformatExact ==
    op = "rsyncformat_path" =>
        /\ args.sync_content =>
                /\ endswith(ret[2], "/")
                /\ endswith(args.source_path, "/") => ret[2] = args.source_path
                /\ ~endswith(args.source_path, "/") =>
                        ret[2] = args.source_path \o <<"/">> /\ EndsWithOneSlash(ret[2])
        /\ ~args.sync_content => IsStripped(ret[2], args.source_path)
        /\ (args.source_path = InitD /\ args.sync_content) => ret[2] = InitD \o <<"/">>
        /\ (args.source_path \in {InitD, InitD \o <<"/">>} /\ ~args.sync_content) => ret[2] = InitD

C9_Witness ==
    /\ op = "rsyncformat_path"
    /\ args.sync_content
    /\ args.source_path = InitD \o <<"/", "/">>
    /\ ret[2] = args.source_path

(***************************************************************************)
(* Properties of the remote helpers                                        *)
(***************************************************************************)
\* an owner or mode is supplied when it is given and not empty
Supplied(v) == v # PyNone /\ v # PyStr(<<>>)

IsCmd(e, name) == e.prim = "sudo" /\ e.words[1] = name

IsPut(e) == e.prim = "put"

Chowns == {i \in DOMAIN trace : IsCmd(trace[i], "chown")}

Chmods == {i \in DOMAIN trace : IsCmd(trace[i], "chmod")}

Mkdirs == {i \in DOMAIN trace : IsCmd(trace[i], "mkdir")}

Puts == {i \in DOMAIN trace : IsPut(trace[i])}

\* C4: when no command fails, sudo_chattr issues exactly one chown iff an
\* owner is supplied and exactly one chmod iff a mode is supplied, each
\* whatever the other is, nothing else, and the chown before the chmod.
C4_ChattrCommands ==
    (op = "sudo_chattr" /\ args.failAt = 0) =>
        /\ Cardinality(Chowns) = (IF Supplied(args.owner) THEN 1 ELSE 0)
        /\ Cardinality(Chmods) = (IF Supplied(args.mode) THEN 1 ELSE 0)
        /\ Len(trace) = Cardinality(Chowns) + Cardinality(Chmods)
        /\ \A i \in Chowns : trace[i].words = <<"chown", args.owner[2], args.remote_path>>
        /\ \A i \in Chmods : trace[i].words = <<"chmod", args.mode[2], args.remote_path>>
        /\ \A i \in Chowns, j \in Chmods : i < j
        /\ error = NoError

C4_Witness ==
    /\ op = "sudo_chattr"
    /\ args.failAt = 0
    /\ Supplied(args.owner)
    /\ Supplied(args.mode)
    /\ Len(trace) = 2
    /\ IsCmd(trace[1], "chown")
    /\ IsCmd(trace[2], "chmod")

\* C5: sudo_upload_file issues the copy exactly once, before any chown or
\* chmod, and stops at the first failure without retrying: a failed copy
\* is followed by no command and is the failure the caller sees; a failed
\* chown is followed by no chmod and is the failure the caller sees.
C5_UploadFileStopsAtFirstFailure ==
    op = "sudo_upload_file" =>
        /\ Puts = {1}
        /\ trace[1].words = <<"put", args.local_path, args.remote_path>>
        /\ Cardinality(Chowns) <= 1
        /\ Cardinality(Chmods) <= 1
        /\ args.failAt = 1 =>
                /\ Len(trace) = 1
                /\ error = [raisedBy |-> "put", call |-> 1]
        /\ (args.failAt = 2 /\ Supplied(args.chattr_kw.owner)) =>
                /\ Len(trace) = 2
                /\ IsCmd(trace[2], "chown")
                /\ Chmods = {}
                /\ error = [raisedBy |-> "sudo", call |-> 2]
        /\ args.failAt > 0 => (error.call = args.failAt /\ Len(trace) = args.failAt)
        /\ args.failAt = 0 => error = NoError

C5_Witness ==
    /\ op = "sudo_upload_file"
    /\ Supplied(args.chattr_kw.owner)
    /\ Supplied(args.chattr_kw.mode)
    /\ args.failAt = 2
    /\ error.raisedBy = "sudo"
    /\ IsCmd(trace[Len(trace)], "chown")

\* C2: sudo_upload_string_to_file leaves no temporary file behind, whether
\* it returns or the upload (copy, chown or chmod) fails; the other
\* temporary files are untouched, and the caller sees the upload's own
\* error.
C2_TempFileRemoved ==
    op = "sudo_upload_string_to_file" =>
        /\ args.fresh \notin DOMAIN tmpfiles
        /\ tmpfiles = args.before
        /\ Puts = {1}
        /\ trace[1].words[2] = TmpPath(args.fresh)
        /\ args.failAt = 0 => error = NoError
        /\ args.failAt > 0 =>
                error = [raisedBy |-> trace[args.failAt].prim, call |-> args.failAt]

C2_Witness ==
    /\ op = "sudo_upload_string_to_file"
    /\ args.failAt = 1
    /\ error = [raisedBy |-> "put", call |-> 1]
    /\ args.fresh \notin DOMAIN tmpfiles

(***************************************************************************)
(* Properties of sudo_upload_dir                                           *)
(***************************************************************************)
\* the names of a key, separated by '/'
RECURSIVE JoinNames(_)
JoinNames(k) ==
    IF Len(k) = 1 THEN <<k[1]>>
    ELSE JoinNames(SubSeq(k, 1, Len(k) - 1)) \o <<"/", k[Len(k)]>>

\* the path, below base, of the directory or file reached by the names k
PathUnder(base, k) ==
    IF k = <<>> THEN base
    ELSE (IF base = <<>> \/ endswith(base, "/") THEN base ELSE base \o <<"/">>)
            \o JoinNames(k)

RemoteOf(k) == PathUnder(args.remote_dir, k)

LocalOf(k) == PathUnder(args.local_dir, k)

MkdirOf(k) == <<"mkdir", <<"-", "p">>, RemoteOf(k)>>

PutOf(k, f) == <<"put", LocalOf(Append(k, f)), RemoteOf(Append(k, f))>>

\* chown and chmod commands one sudo_chattr issues with these arguments
NumAttr(kw) == (IF Supplied(kw.owner) THEN 1 ELSE 0) + (IF Supplied(kw.mode) THEN 1 ELSE 0)

\* the sudo_mkdir_p of directory k was issued and completed before call i:
\* its mkdir and the chown/chmod on the directory all precede i, none failed
MadeBefore(k, i) ==
    \E j \in 1..(i - 1) :
        /\ trace[j].prim = "sudo"
        /\ trace[j].words = MkdirOf(k)
        /\ j + NumAttr(args.chattr_kw) < i
        /\ \A m \in (j + 1)..(j + NumAttr(args.chattr_kw)) :
                /\ IsCmd(trace[m], "chown") \/ IsCmd(trace[m], "chmod")
                /\ trace[m].words[3] = RemoteOf(k)
        /\ error.call \notin j..(j + NumAttr(args.chattr_kw))

FilesOf(k) == {args.tree[k].filenames[n] : n \in DOMAIN args.tree[k].filenames}

\* C1: in sudo_upload_dir the sudo_mkdir_p of a directory is issued and
\* completes before the upload of any file directly inside it and before
\* the sudo_mkdir_p of any of its subdirectories.
C1_DirBeforeContents ==
    op = "sudo_upload_dir" =>
        \A k \in DOMAIN args.tree : \A i \in DOMAIN trace :
            /\ (IsPut(trace[i]) /\ \E f \in FilesOf(k) : trace[i].words = PutOf(k, f))
                    => MadeBefore(k, i)
            /\ (k # <<>> /\ IsCmd(trace[i], "mkdir") /\ trace[i].words = MkdirOf(k))
                    => MadeBefore(Parent(k), i)

C1_Witness ==
    /\ op = "sudo_upload_dir"
    /\ error = NoError
    /\ Supplied(args.chattr_kw.owner)
    /\ <<"s">> \in DOMAIN args.tree
    /\ args.tree[<<>>].filenames = <<"a">>
    /\ args.tree[<<"s">>].filenames = <<"b">>
    /\ \E i, j \in Puts : i # j
    /\ \E i, j \in Mkdirs : i # j

\* C3: in sudo_upload_dir the first failing call ends the traversal: it is
\* the last call issued, it is the error the caller sees, and nothing but
\* mkdir, chown, chmod and put was ever issued (nothing is undone).
C3_FirstFailureAborts ==
    (op = "sudo_upload_dir" /\ args.failAt > 0) =>
        /\ Len(trace) = args.failAt
        /\ error = [raisedBy |-> trace[args.failAt].prim, call |-> args.failAt]
        /\ DOMAIN trace = Mkdirs \cup Chowns \cup Chmods \cup Puts
        /\ \A i \in Mkdirs : \E k \in DOMAIN args.tree : trace[i].words = MkdirOf(k)
        /\ \A i \in Puts :
                \E k \in DOMAIN args.tree : \E f \in FilesOf(k) : trace[i].words = PutOf(k, f)

C3_Witness ==
    /\ op = "sudo_upload_dir"
    /\ error.raisedBy = "put"
    /\ Cardinality(Puts) = 1
    /\ Cardinality(Mkdirs) = 1
    /\ Len(args.tree[<<>>].filenames) = 2
    /\ Cardinality(DOMAIN args.tree) = 2

\* C10: a sudo_upload_dir that does not fail issues exactly one mkdir per
\* directory of the tree, for remote_dir itself at the root and for
\* remote_dir joined with the relative path below it, and exactly one put
\* per file, from the local directory joined with the file name to that
\* remote directory joined with the file name.
C10_RemoteTreeMirrorsLocal ==
    (op = "sudo_upload_dir" /\ args.failAt = 0) =>
        /\ error = NoError
        /\ \A k \in DOMAIN args.tree :
                /\ Cardinality({i \in Mkdirs : trace[i].words = MkdirOf(k)}) = 1
                /\ \A f \in FilesOf(k) :
                        Cardinality({i \in Puts : trace[i].words = PutOf(k, f)}) = 1
        /\ Cardinality(Mkdirs) = Cardinality(DOMAIN args.tree)
        /\ Cardinality(Puts) = SumLen([k \in DOMAIN args.tree |-> args.tree[k].filenames],
                                      DOMAIN args.tree)
        /\ \E i \in Mkdirs : trace[i].words[3] = args.remote_dir

C10_Witness ==
    /\ op = "sudo_upload_dir"
    /\ args.failAt = 0
    /\ \E k \in DOMAIN args.tree : Len(k) = 2 /\ Len(args.tree[k].filenames) = 1
    /\ Len(args.tree[<<>>].filenames) = 1
    /\ args.local_dir = <<"l", "/">>
    /\ Cardinality(Puts) = 2
    /\ Cardinality(Mkdirs) = 3

Next ==
    \/ CallParseBool
    \/ CallForceSlashend
    \/ CallForceNoslashend
    \/ CallRsyncformatPath
    \/ CallSudoChown
    \/ CallSudoChmod
    \/ CallSudoChattr
    \/ CallSudoUploadFile
    \/ CallSudoUploadStringToFile
    \/ CallSudoMkdirP
    \/ CallSudoUploadDir

Spec == Init /\ [][Next]_vars

====
